---- MODULE Spec2Model ----
(***************************************************************************)
(* Kit management core of the vibekit CLI: the installed-kits list, the    *)
(* customization index, the kit directories and the flat customization     *)
(* folders of one .vibe-kit state directory, driven by the install, update *)
(* and uninstall commands.  One command runs at a time (single process).   *)
(* The source repositories are outside the state directory and may change  *)
(* freely between commands: every command reads them as they are when it   *)
(* starts.  Between commands the user may also drop a kit directory into   *)
(* the state directory by hand.                                            *)
(***************************************************************************)
EXTENDS Integers, Sequences, FiniteSets, TLC

(* ------------------------------------------------------------------ *)
(* Bounds of the model                                                 *)
(* ------------------------------------------------------------------ *)
\* manifests declare the versions 1.0.0 .. 1.MaxMinor.0
MaxMinor == 1
\* file-system operations that may be refused in one behaviour
MaxFaults == 1
\* depth of the directory tree below the top directory
MaxDepth == 2
\* length of the version strings compare is tried on
MaxLen == 3

(* ------------------------------------------------------------------ *)
(* Version strings and versioning.compare                              *)
(* A version string is a sequence of character codes.                  *)
(* ------------------------------------------------------------------ *)
Dot == 46
Zero == 48
Nine == 57
Minus == 45
Plus == 43

\* "0.0.0" and "1.<minor>.0"
V000 == <<Zero, Dot, Zero, Dot, Zero>>
V1(minor) == <<Zero + 1, Dot, Zero + minor, Dot, Zero>>
V100 == V1(0)
NoVersion == <<>>

IsDigit(c) == c >= Zero /\ c <= Nine

\* v.split('.')
RECURSIVE SplitDots(_, _, _)
SplitDots(v, cur, acc) ==
    IF v = <<>> THEN Append(acc, cur)
    ELSE IF Head(v) = Dot THEN SplitDots(Tail(v), <<>>, Append(acc, cur))
    ELSE SplitDots(Tail(v), Append(cur, Head(v)), acc)

\* the digits of an integer literal, after its optional sign
Unsigned(x) == IF x # <<>> /\ Head(x) \in {Minus, Plus} THEN Tail(x) ELSE x

\* int(x) succeeds on an optional sign followed by a non-empty run of digits
IsInt(x) == Unsigned(x) # <<>> /\ \A i \in 1..Len(Unsigned(x)) : IsDigit(Unsigned(x)[i])

RECURSIVE DigitsOf(_, _)
DigitsOf(x, acc) ==
    IF x = <<>> THEN acc ELSE DigitsOf(Tail(x), acc * 10 + (Head(x) - Zero))

\* int(x)
IntOf(x, acc) ==
    IF x # <<>> /\ Head(x) = Minus THEN 0 - DigitsOf(Unsigned(x), acc)
    ELSE DigitsOf(Unsigned(x), acc)

\* parts(v): the integer components, or <<-1>> standing for None
parts(v) ==
    LET comps == SplitDots(v, <<>>, <<>>)
    IN IF \A i \in 1..Len(comps) : IsInt(comps[i])
       THEN [i \in 1..Len(comps) |-> IntOf(comps[i], 0)]
       ELSE <<-1>>

IsNone(p) == p = <<-1>>

\* a comparison that looks at the first components only
CmpFirst(pa, pb) ==
    IF pa = <<>> \/ pb = <<>> THEN 0
    ELSE IF Head(pa) < Head(pb) THEN -1
    ELSE IF Head(pa) > Head(pb) THEN 1
    ELSE 0

\* for x, y in zip(pa, pb): ...; return 0
RECURSIVE CmpIntSeq(_, _)
CmpIntSeq(pa, pb) ==
    IF pa = <<>> \/ pb = <<>> THEN 0
    ELSE IF Head(pa) < Head(pb) THEN -1
    ELSE IF Head(pa) > Head(pb) THEN 1
    ELSE CmpIntSeq(Tail(pa), Tail(pb))

\* Python's str ordering: code point by code point, a proper prefix is smaller
RECURSIVE StrLess(_, _)
StrLess(a, b) ==
    IF b = <<>> THEN FALSE
    ELSE IF a = <<>> THEN TRUE
    ELSE IF Head(a) < Head(b) THEN TRUE
    ELSE IF Head(a) > Head(b) THEN FALSE
    ELSE StrLess(Tail(a), Tail(b))

compare(a, b) ==
    LET pa == parts(a)
        pb == parts(b)
    IN IF ~IsNone(pa) /\ ~IsNone(pb) /\ Len(pa) = Len(pb)
       THEN CmpIntSeq(pa, pb)
       ELSE IF StrLess(a, b) THEN -1
       ELSE IF StrLess(b, a) THEN 1
       ELSE 0

\* the strings compare is tried on: every string of at most MaxLen characters
\* over a sign, the dot and two digits, and the versions of the docstring's
\* kind ("1.2.3", "1.2.4", "2.0", "1.9", "1.10", "1.10.1")
Alphabet == {Minus, Dot, Zero + 1, Nine}
Examples == {<<Zero + 1, Dot, Zero + 2, Dot, Zero + 3>>,
             <<Zero + 1, Dot, Zero + 2, Dot, Zero + 4>>,
             <<Zero + 2, Dot, Zero>>,
             <<Zero + 1, Dot, Nine>>,
             <<Zero + 1, Dot, Zero + 1, Zero>>,
             <<Zero + 1, Dot, Zero + 1, Zero, Dot, Zero + 1>>}
VersionStrings == UNION {[1..n -> Alphabet] : n \in 0..MaxLen} \cup Examples

\* no call of compare; result is <<>> until compare returns r, then <<r>>
NoCall == [a |-> <<>>, b |-> <<>>, result |-> <<>>]

(* ------------------------------------------------------------------ *)
(* Kits, repository roots, customization files                         *)
(* ------------------------------------------------------------------ *)
Kits == {"a-kit", "b-kit"}

\* the repo roots resolve_repo_root returns, in its order; TempRoot is the
\* temporary directory of a remote download, UserRoot a directory made by hand
RepoRoots == <<"root1", "root2">>
Roots == {RepoRoots[i] : i \in 1..Len(RepoRoots)}
TempRoot == "tmp"
UserRoot == "user"

\* Files a customizations/ tree may hold, listed in the order of their
\* relative posix paths: "alpha.prompt.md" < "beta.chatmode.md" <
\* "nested/alpha.prompt.md" < "notes.txt".
SortedRelPaths ==
    << [dir |-> "", stem |-> "alpha", suffix |-> ".prompt.md"],
       [dir |-> "", stem |-> "beta", suffix |-> ".chatmode.md"],
       [dir |-> "nested", stem |-> "alpha", suffix |-> ".prompt.md"],
       [dir |-> "", stem |-> "notes", suffix |-> ".txt"] >>
RelPaths == {SortedRelPaths[i] : i \in 1..Len(SortedRelPaths)}

FileName(p) == [stem |-> p.stem, suffix |-> p.suffix]
NoName == [stem |-> "", suffix |-> ""]
NoPath == [dir |-> "", stem |-> "", suffix |-> ""]

\* manifests.ASSET_SUFFIX_GROUPS, in dictionary order
CategoryOrder == <<"chatmodes", "prompts", "instructions">>
ASSET_SUFFIX_GROUPS ==
    [chatmodes |-> {".chatmode.md"},
     prompts |-> {".prompt.md"},
     instructions |-> {".instructions.md"}]
NoCategory == ""

\* next((c for c, sufs in ASSET_SUFFIX_GROUPS.items() if any(name.endswith(suf) ...)), None)
RECURSIVE FirstCategory(_, _)
FirstCategory(name, cats) ==
    IF cats = <<>> THEN NoCategory
    ELSE IF name.suffix \in ASSET_SUFFIX_GROUPS[Head(cats)] THEN Head(cats)
    ELSE FirstCategory(name, Tail(cats))

Category(name) == FirstCategory(name, CategoryOrder)

\* state_dir/<category>/<filename>, relative to the state directory
Dest(category, name) == [category |-> category, name |-> name]
Dests == {Dest(Category(FileName(p)), FileName(p)) :
             p \in {q \in RelPaths : Category(FileName(q)) # NoCategory}}

(* ------------------------------------------------------------------ *)
(* Values                                                              *)
(* ------------------------------------------------------------------ *)
\* a kit directory in a repository root (or the temporary download)
NoSrc == [exists |-> FALSE, manifest |-> NoVersion, custom |-> FALSE,
          tree |-> {}, kitYaml |-> FALSE]

\* a directory innovation-kits/<kit>
NoDir == [exists |-> FALSE, manifest |-> NoVersion, kitYaml |-> "none",
          custom |-> FALSE, origin |-> TempRoot, intact |-> TRUE]

\* content of a customization file: the source file it was read from
NoFile == [root |-> TempRoot, kit |-> "", ver |-> NoVersion, path |-> NoPath]
Content(root, kit, src, p) == [root |-> root, kit |-> kit, ver |-> src.manifest, path |-> p]

\* manifest metadata; NoMeta stands for None / {}
NoMeta == [id |-> "", name |-> "", version |-> NoVersion]
Meta(id, version) == [id |-> id, name |-> id, version |-> version]

Msg(tag, file, n) == [tag |-> tag, file |-> file, n |-> n]

\* no command; implicit_srcs are the repo roots still to process, implicit_src
\* the source directory <root>/<kit> being processed
NoCmd == [op |-> "none", kit |-> "", dry_run |-> FALSE, remote |-> FALSE,
          implicit_srcs |-> <<>>, implicit_src |-> NoSrc,
          installed_version |-> NoVersion,
          remote_manifest_meta |-> NoMeta, source_kind |-> ""]

VARIABLES
    installed,   \* innovation-kits.json: sequence of kit records
    kitDir,      \* innovation-kits/<kit> for every kit name
    index,       \* customizations-index.json "kits": set of entries
    files,       \* <category>/<filename> files of the state directory
    tmpDir,      \* the temporary download directory of install
    pc,          \* position of the running command, "idle" between commands
    cmd,         \* the running (or last) command and its locals
    out,         \* messages echoed by the running (or last) command
    exitCode,    \* exit code of the last command (read when pc = "idle")
    faults,      \* file-system operations refused so far
    fs,          \* the directories of the user's file system
    cwd,         \* the working directory of the next command
    initDir,     \* target_dir of the last command when it was init, else <<>>
    io,          \* customizations-index.json as bytes on disk, its writer and a reader
    call,        \* a call of versioning.compare: its arguments and its result
    before       \* the disk as noted before an install, to compare it with later

disk == <<installed, kitDir, index, files>>
project == <<fs, cwd, initDir>>
vars == <<installed, kitDir, index, files, tmpDir, pc, cmd, out, exitCode, faults,
          fs, cwd, initDir, io, call, before>>

(* ------------------------------------------------------------------ *)
(* state.py                                                            *)
(* ------------------------------------------------------------------ *)
Ids(list) == {list[i].id : i \in 1..Len(list)}

\* {k.get("id"): k for k in load_installed_kits(root)}[kit]: the last record wins
RecordOf(list, kit) ==
    list[CHOOSE i \in 1..Len(list) :
            /\ list[i].id = kit
            /\ \A j \in (i + 1)..Len(list) : list[j].id # kit]

\* a filter that drops the first record, whatever its id
WithoutHead(list, id) == IF list = <<>> THEN list ELSE Tail(list)

WithoutId(list, id) == SelectSeq(list, LAMBDA x : x.id # id)

\* a record_install that persists nothing
record_install_skipped(list, metadata, target, source_kind) == list

\* a record_install that appends without dropping the record of the same id
record_install_appending(list, metadata, target, source_kind) ==
    IF metadata.id = "" THEN list
    ELSE Append(list,
                [id |-> metadata.id, name |-> metadata.name,
                 version |-> metadata.version,
                 path |-> target, source |-> source_kind])

record_install(list, metadata, target, source_kind) ==
    IF metadata.id = "" THEN list
    ELSE Append(WithoutId(list, metadata.id),
                [id |-> metadata.id, name |-> metadata.name,
                 version |-> metadata.version,
                 path |-> target, source |-> source_kind])

(* ------------------------------------------------------------------ *)
(* manifests.py (manifest reader)                                      *)
(* ------------------------------------------------------------------ *)
\* extract_manifest_metadata(prefer_manifest_file(dir)) of a directory named kit
extract_manifest_metadata(kit, manifest) ==
    IF manifest = NoVersion THEN NoMeta ELSE Meta(kit, manifest)

(* ------------------------------------------------------------------ *)
(* commands/common.py                                                  *)
(* ------------------------------------------------------------------ *)
ensure_minimal_kit_yaml(dir) ==
    IF dir.kitYaml # "none" THEN dir ELSE [dir EXCEPT !.kitYaml = "stub"]

\* shutil.copytree(source, target): the whole tree, customizations/ included
CopyTree(root, src) ==
    [exists |-> TRUE, manifest |-> src.manifest,
     kitYaml |-> IF src.kitYaml THEN "source" ELSE "none",
     custom |-> src.custom, origin |-> root, intact |-> TRUE]

\* an installation that keeps the customizations/ subfolder of its source
KeepCustomizations(dir) == dir

\* shutil.rmtree(target / "customizations") when it exists
StripCustomizations(dir) == [dir EXCEPT !.custom = FALSE]

(* ------------------------------------------------------------------ *)
(* assets.py                                                           *)
(* ------------------------------------------------------------------ *)
Exists(fls, d) == fls[d] # NoFile

\* the bundle paths of every kit
AllBundles(idx, kit) == {e.bundle : e \in idx}

\* bundle paths recorded for a kit
BundlesOf(idx, kit) == {e.bundle : e \in {x \in idx : x.kit = kit}}

\* an index removal that reports no bundle to delete
remove_kit_keeping_bundles(idx, kit) ==
    [index |-> {e \in idx : e.kit # kit}, removed |-> {}]

remove_kit_from_custom_index(idx, kit) ==
    [index |-> {e \in idx : e.kit # kit}, removed |-> BundlesOf(idx, kit)]

\* a detection that does not pass over the kit's own entry
detect_counting_own_kit(idx, kit, source_files) ==
    {Msg("conflict", FileName(p), 0) :
        p \in {q \in source_files : \E e \in idx : e.filename = FileName(q)}}

\* Path(rel).name of a recorded source or bundle
detect_customization_conflicts(idx, kit, source_files) ==
    LET others == {e \in idx : e.kit # kit}
        owners(base) ==
            {e.kit : e \in {x \in others :
                \/ \E i \in 1..Len(x.sources) : FileName(x.sources[i]) = base
                \/ x.bundle.name = base}}
    IN {Msg("conflict", FileName(p), 0) :
           p \in {q \in source_files : owners(FileName(q)) # {}}}

\* custom_dir.rglob("*"): the files of the tree, in whatever order the file
\* system lists them
rglob(tree) ==
    {e \in [1..Cardinality(tree) -> tree] :
        \A i, j \in 1..Cardinality(tree) : i # j => e[i] # e[j]}

\* key=lambda p: p.relative_to(custom_dir).as_posix(), as a rank
Rank(p) == CHOOSE i \in 1..Len(SortedRelPaths) : SortedRelPaths[i] = p

RECURSIVE Insert(_, _)
Insert(p, seq) ==
    IF seq = <<>> THEN <<p>>
    ELSE IF Rank(p) <= Rank(Head(seq)) THEN <<p>> \o seq
    ELSE <<Head(seq)>> \o Insert(p, Tail(seq))

\* a walk in the order of the enumeration
unsorted(enum) == enum

\* sorted(custom_dir.rglob("*"), key=...)
RECURSIVE sorted(_)
sorted(enum) ==
    IF enum = <<>> THEN <<>> ELSE Insert(Head(enum), sorted(Tail(enum)))

\* the sorted walk of a customizations/ tree
SortedFiles(tree) == sorted(CHOOSE e \in rglob(tree) : TRUE)

\* a loop body that copies every classified file, whoever owns its name
CopyOneOverwriting(path, root, kit, src, kits, acc) ==
    LET name == FileName(path)
        category == Category(name)
        dest == Dest(category, name)
    IN IF category = NoCategory THEN acc
       ELSE [acc EXCEPT
               !.files = [@ EXCEPT ![dest] = Content(root, kit, src, path)],
               !.new_entry =
                   {e \in @ : ~(e.category = category /\ e.filename = name)}
                   \cup {[kit |-> kit, category |-> category, filename |-> name,
                          bundle |-> dest, sources |-> <<path>>]},
               !.written = Append(@, dest)]

\* the body of the loop of copy_kit_content_assets for one file: kits is the
\* index without the kit's previous entry, acc what the loop has done so far
CopyOne(path, root, kit, src, kits, acc) ==
    LET name == FileName(path)
        category == Category(name)
        dest == Dest(category, name)
    IN IF category = NoCategory
         THEN acc
       ELSE IF \E e \in kits : e.kit # kit /\ e.category = category /\ e.filename = name
         THEN [acc EXCEPT !.msgs = @ \cup {Msg("skip-conflict", name, 0)}]
       ELSE IF Exists(acc.files, dest)
         THEN [acc EXCEPT !.msgs = @ \cup {Msg("skip-exists", name, 0)}]
       ELSE [acc EXCEPT
               !.files = [@ EXCEPT ![dest] = Content(root, kit, src, path)],
               !.new_entry =
                   {e \in @ : ~(e.category = category /\ e.filename = name)}
                   \cup {[kit |-> kit, category |-> category, filename |-> name,
                          bundle |-> dest, sources |-> <<path>>]},
               !.written = Append(@, dest)]

\* the loop of copy_kit_content_assets over the sorted paths
RECURSIVE CopyLoop(_, _, _, _, _, _)
CopyLoop(paths, root, kit, src, kits, acc) ==
    IF paths = <<>> THEN acc
    ELSE CopyLoop(Tail(paths), root, kit, src, kits,
                  CopyOne(Head(paths), root, kit, src, kits, acc))

\* the previously recorded bundles of the kit are unlinked, its entry popped
RemovePrevious(idx, fls, kit) ==
    [index |-> {e \in idx : e.kit # kit},
     files |-> [d \in Dests |-> IF d \in BundlesOf(idx, kit) THEN NoFile ELSE fls[d]]]

copy_kit_content_assets(root, kit, src, idx, fls) ==
    IF ~src.custom
    THEN [index |-> idx, files |-> fls, written |-> <<>>, msgs |-> {}]
    ELSE
      LET prev == RemovePrevious(idx, fls, kit)
          done == CopyLoop(SortedFiles(src.tree), root, kit, src, prev.index,
                           [files |-> prev.files, new_entry |-> {},
                            written |-> <<>>, msgs |-> {}])
      IN [index |-> prev.index \cup done.new_entry, files |-> done.files,
          written |-> done.written, msgs |-> done.msgs]

(* ------------------------------------------------------------------ *)
(* Sources and file-system outcomes                                    *)
(* ------------------------------------------------------------------ *)
\* versions a manifest may declare; NoVersion: the directory has no manifest
ManifestVersions == {NoVersion} \cup {V1(m) : m \in 0..MaxMinor}

\* customizations/ trees a source directory may hold
Trees == {{SortedRelPaths[1], SortedRelPaths[4]},
          {SortedRelPaths[1], SortedRelPaths[2], SortedRelPaths[3]}}

\* a source directory has a customizations/ folder holding one of the trees,
\* or none; a source without a manifest ships its own kit.yaml
SourceKits ==
    {[exists |-> TRUE, manifest |-> v, custom |-> TRUE, tree |-> t,
      kitYaml |-> (v = NoVersion)] : v \in ManifestVersions, t \in Trees}
    \cup
    {[exists |-> TRUE, manifest |-> v, custom |-> FALSE, tree |-> {},
      kitYaml |-> (v = NoVersion)] : v \in ManifestVersions}

\* the repo roots that may hold a directory for the kit a command names
RootSets == SUBSET Roots

\* directories a user may put under innovation-kits/ by hand
UserDirs ==
    {[exists |-> TRUE, manifest |-> v, kitYaml |-> "none", custom |-> c,
      origin |-> UserRoot, intact |-> TRUE] :
        v \in {NoVersion, V100}, c \in BOOLEAN}

\* what download_remote_kit leaves in the temporary directory
RemoteKits ==
    {[exists |-> TRUE, manifest |-> V100, custom |-> TRUE,
      tree |-> {SortedRelPaths[1], SortedRelPaths[4]}, kitYaml |-> FALSE]}

\* the candidates taken in the reverse of the order of the repo roots
ReversedRoots(having) ==
    LET n == Len(RepoRoots)
    IN SelectSeq([i \in 1..n |-> RepoRoots[n + 1 - i]], LAMBDA r : r \in having)

\* repo / kit_name for every repo root, kept when it is a directory
CandidateRoots(having) == SelectSeq(RepoRoots, LAMBDA r : r \in having)

\* the directory a loop iteration reads: the temporary download, or the
\* directory found in the repo root
SourceRead(root, found) == IF root = TempRoot THEN tmpDir ELSE found

\* a failed copytree leaves nothing or a partial tree
CopyFailures(root, src) == {NoDir, [CopyTree(root, src) EXCEPT !.intact = FALSE]}
\* a failed rmtree leaves the tree whole or partly removed
RmFailures(dir) == {dir, [dir EXCEPT !.intact = FALSE]}

(* ------------------------------------------------------------------ *)
(* Directories of the user's file system                               *)
(* ------------------------------------------------------------------ *)
\* a directory is the sequence of names that leads to it from the top
\* directory <<>>; Path.parents of a directory are its proper prefixes
\* documents the index may hold, and their text: json.dumps(data) + "\n"
Docs == {"kits-1", "kits-2", "kits-3"}
dumps(data) == <<"{", data, "}", "\n">>

\* no file at the path
Absent == <<"absent">>

\* _index_path(state_dir)
_index_path == "customizations-index.json"

\* the index file and its .tmp sibling, the writer's position and argument,
\* the index file as the writer found it, and what a reader last read
NoIO == [files |-> [p \in {"customizations-index.json", "customizations-index.tmp"} |-> Absent],
         wpc |-> "idle", data |-> "", prev |-> Absent, seen |-> Absent]

DirNames == {"app"}
Dirs == UNION {[1..n -> DirNames] : n \in 0..MaxDepth}

\* a directory: state is TRUE when it holds a .vibe-kit directory, other
\* when it holds an entry that is neither .vibe-kit nor a directory of
\* Dirs, kits are the kits recorded and copied in its .vibe-kit
NoTree == [exists |-> FALSE, state |-> FALSE, other |-> FALSE, kits |-> {}]

(* ------------------------------------------------------------------ *)
(* Initial state: an initialised, empty state directory                *)
(* ------------------------------------------------------------------ *)
\* nothing noted
NoNote == [noted |-> FALSE, kit |-> "", installed |-> {},
           kitDir |-> [k \in Kits |-> NoDir], index |-> {},
           files |-> [d \in Dests |-> NoFile]]

Init ==
    /\ installed = <<>>
    /\ kitDir = [k \in Kits |-> NoDir]
    /\ index = {}
    /\ files = [d \in Dests |-> NoFile]
    /\ tmpDir = NoSrc
    /\ pc = "idle"
    /\ cmd = NoCmd
    /\ out = {}
    /\ exitCode = 0
    /\ faults = 0
    /\ fs = [d \in Dirs |-> IF d = <<>> THEN [NoTree EXCEPT !.exists = TRUE]
                                         ELSE NoTree]
    /\ cwd = <<>>
    /\ initDir = <<>>
    /\ io = NoIO
    /\ call = NoCall
    /\ before = NoNote

(* ------------------------------------------------------------------ *)
(* Edits made outside the CLI                                          *)
(* ------------------------------------------------------------------ *)
\* the user drops a directory innovation-kits/<k> into the state directory
UserCreateDir(k, dir) ==
    /\ pc = "idle"
    /\ ~kitDir[k].exists
    /\ kitDir' = [kitDir EXCEPT ![k] = dir]
    /\ cmd' = NoCmd
    /\ out' = {}
    /\ exitCode' = 0
    /\ UNCHANGED <<installed, index, files, tmpDir, pc, faults>>
    /\ UNCHANGED <<project, io, call, before>>

\* a customization file the user wrote by hand
UserFile == [root |-> UserRoot, kit |-> "", ver |-> NoVersion, path |-> NoPath]

\* the user puts a file of their own where customization files go
UserPutFile(d) ==
    /\ pc = "idle"
    /\ ~Exists(files, d)
    /\ files' = [files EXCEPT ![d] = UserFile]
    /\ cmd' = NoCmd
    /\ out' = {}
    /\ exitCode' = 0
    /\ UNCHANGED <<installed, kitDir, index, tmpDir, pc, faults>>
    /\ UNCHANGED <<project, io, call, before>>

(* ------------------------------------------------------------------ *)
(* Command plumbing                                                    *)
(* ------------------------------------------------------------------ *)
\* the command line: a fresh invocation of op on kit k
Invoke(op, k, dry, remote) ==
    [NoCmd EXCEPT !.op = op, !.kit = k, !.dry_run = dry, !.remote = remote]

\* the invocation goes on at position next, with the locals set in c
Continue(c, next, msgs) ==
    /\ pc' = next
    /\ cmd' = c
    /\ out' = msgs
    /\ exitCode' = 0

\* the command ends: typer.Exit(code), return, or falling off the end
Exit(c, code, msgs) ==
    /\ pc' = "idle"
    /\ exitCode' = code
    /\ out' = msgs
    /\ cmd' = [c EXCEPT !.implicit_srcs = <<>>, !.implicit_src = NoSrc,
                        !.installed_version = NoVersion]

Finish(code, msgs) == Exit(cmd, code, out \cup msgs)

\* the file system obliges (ok) or refuses one more operation
Obliges(ok) ==
    IF ok THEN UNCHANGED faults
    ELSE faults < MaxFaults /\ faults' = faults + 1

\* an exit that leaves the temporary directory behind
NoCleanup == UNCHANGED tmpDir

\* finally: temp_dir_ctx.cleanup()
Cleanup == tmpDir' = NoSrc

(* ------------------------------------------------------------------ *)
(* install                                                             *)
(* ------------------------------------------------------------------ *)
DefaultMeta(kit) == Meta(kit, V000)

\* a choice that ignores the metadata read and takes the fallback
OrMetaFallback(x, y) == y

\* x or y for manifest metadata
OrMeta(x, y) == IF x # NoMeta THEN x ELSE y

\* a check that finds no kit recorded
NeverInstalled(list, k) == FALSE

\* kit_name in {k.get("id"): k for k in load_installed_kits(root)}
AlreadyInstalled(list, k) == k \in Ids(list)

\* vibekit install k: run_install up to the resolution of the source
\* directories.  remote: VIBEKIT_BASE_PATH is a git URL; having: the repo
\* roots that hold a directory for the kit
Install(k, remote, having) ==
    /\ pc = "idle"
    /\ LET c == Invoke("install", k, FALSE, remote) IN
       IF AlreadyInstalled(installed, k)
       THEN /\ having = {}
            /\ Exit(c, 0, {Msg("already-installed", NoName, 0)})
            /\ UNCHANGED <<installed, kitDir, index, files, tmpDir>>
       ELSE IF kitDir[k].exists
       THEN /\ having = {}
            /\ installed' = record_install(installed,
                               OrMeta(extract_manifest_metadata(k, kitDir[k].manifest),
                                      DefaultMeta(k)),
                               k, "existing-directory")
            /\ Exit(c, 0, {Msg("drift-reconciliation", NoName, 0)})
            /\ UNCHANGED <<kitDir, index, files, tmpDir>>
       ELSE IF remote
       THEN \* tempfile.TemporaryDirectory(prefix="vibekit-remote-")
            /\ having = {}
            /\ tmpDir' = [NoSrc EXCEPT !.exists = TRUE]
            /\ Continue([c EXCEPT !.source_kind = "env-repository"], "i_download", {})
            /\ UNCHANGED <<installed, kitDir, index, files>>
       ELSE IF CandidateRoots(having) = <<>>
       THEN /\ Cleanup
            /\ Exit([c EXCEPT !.source_kind = "env-repository"], 2,
                    {Msg("unknown-kit", NoName, 0)})
            /\ UNCHANGED <<installed, kitDir, index, files>>
       ELSE /\ Continue([c EXCEPT !.implicit_srcs = CandidateRoots(having),
                                  !.source_kind = "env-repository"], "i_copy", {})
            /\ UNCHANGED <<installed, kitDir, index, files, tmpDir>>
    /\ UNCHANGED faults
    /\ UNCHANGED <<project, io, call, before>>

\* download_remote_kit(configured_repo, kit_name, temp_dir) and its handlers
InstallDownload(outcome, kit) ==
    /\ pc = "i_download"
    /\ \/ /\ outcome = "ok"
          /\ tmpDir' = kit
          \* implicit_src and remote_manifest_meta are bound; implicit_srcs stays []
          /\ cmd' = [cmd EXCEPT !.implicit_src = kit,
                                !.remote_manifest_meta = Meta(cmd.kit, kit.manifest),
                                !.source_kind = "env-remote"]
          /\ pc' = "i_copy"
          /\ out' = out \cup {Msg("repository-source-env-remote", NoName, 0)}
          /\ UNCHANGED exitCode
       \/ /\ outcome = "value-error"
          /\ Cleanup
          /\ Finish(2, {Msg("resolution-error", NoName, 0)})
       \/ /\ outcome = "runtime-error"
          /\ Cleanup
          /\ Finish(6, {Msg("download-failed", NoName, 0)})
       \/ \* any other exception is not caught; the finally clause still runs
          /\ outcome = "other-error"
          /\ Cleanup
          /\ Finish(1, {Msg("uncaught-exception", NoName, 0)})
    /\ UNCHANGED <<installed, kitDir, index, files, faults>>
    /\ UNCHANGED <<project, io, call, before>>

\* head of the loop over implicit_srcs: conflict report and copytree; found
\* is the directory in the repo root, ok whether the file system obliges
InstallCopy(ok, found) ==
    /\ pc = "i_copy"
    /\ Obliges(ok)
    /\ LET k == cmd.kit IN
       IF cmd.implicit_srcs = <<>>
       THEN /\ ok
            /\ found = NoSrc
            /\ Cleanup
            /\ Finish(0, {})
            /\ UNCHANGED kitDir
       ELSE LET root == Head(cmd.implicit_srcs)
                src == SourceRead(root, found)
                conflicts == IF src.custom
                             THEN detect_customization_conflicts(index, k, src.tree)
                             ELSE {}
            IN /\ found # NoSrc
               /\ IF kitDir[k].exists
                  THEN \* copytree raises: the target exists
                       /\ ok
                       /\ Cleanup
                       /\ Finish(6, conflicts \cup {Msg("copy-failed", NoName, 0)})
                       /\ UNCHANGED kitDir
                  ELSE IF ok
                  THEN /\ kitDir' = [kitDir EXCEPT ![k] = CopyTree(root, src)]
                       /\ pc' = "i_record"
                       /\ out' = out \cup conflicts
                       /\ cmd' = [cmd EXCEPT !.implicit_src = src]
                       /\ UNCHANGED <<tmpDir, exitCode>>
                  ELSE /\ \E d \in CopyFailures(root, src) :
                             kitDir' = [kitDir EXCEPT ![k] = d]
                       /\ Cleanup
                       /\ Finish(6, conflicts \cup {Msg("copy-failed", NoName, 0)})
    /\ UNCHANGED <<installed, index, files>>
    /\ UNCHANGED <<project, io, call, before>>

\* manifest metadata, record_install, ensure_minimal_kit_yaml
InstallRecord ==
    /\ pc = "i_record"
    /\ LET k == cmd.kit
           manifest_meta ==
               OrMeta(cmd.remote_manifest_meta,
                      OrMeta(extract_manifest_metadata(k, kitDir[k].manifest),
                             DefaultMeta(k)))
       IN /\ installed' = record_install(installed, manifest_meta, k, cmd.source_kind)
          /\ kitDir' = [kitDir EXCEPT ![k] = ensure_minimal_kit_yaml(@)]
    /\ pc' = "i_extract"
    /\ UNCHANGED <<index, files, tmpDir, cmd, out, exitCode, faults>>
    /\ UNCHANGED <<project, io, call, before>>

\* copy_kit_content_assets, removal of the installed customizations/ folder
InstallExtract ==
    /\ pc = "i_extract"
    /\ LET k == cmd.kit
           root == Head(cmd.implicit_srcs)
           res == copy_kit_content_assets(root, k, cmd.implicit_src, index, files)
       IN /\ index' = res.index
          /\ files' = res.files
          /\ kitDir' = [kitDir EXCEPT ![k] = StripCustomizations(@)]
          /\ out' = out \cup res.msgs
                        \cup (IF res.written # <<>>
                              THEN {Msg("copied", NoName, Len(res.written))} ELSE {})
                        \cup {Msg("installed", NoName, 0)}
    /\ cmd' = [cmd EXCEPT !.implicit_srcs = Tail(@), !.implicit_src = NoSrc]
    /\ pc' = "i_copy"
    /\ UNCHANGED <<installed, tmpDir, exitCode, faults>>
    /\ UNCHANGED <<project, io, call, before>>

(* ------------------------------------------------------------------ *)
(* update                                                              *)
(* ------------------------------------------------------------------ *)
\* x or "0.0.0" for version strings
OrZero(v) == IF v = NoVersion THEN V000 ELSE v

\* vibekit update k [--dry-run]: run_update up to the loop; installed_meta
\* is read once, here.  having: the repo roots that hold a directory for the kit
Update(k, dry, having) ==
    /\ pc = "idle"
    /\ LET c == Invoke("update", k, dry, FALSE) IN
       IF k \notin Ids(installed)
       THEN \* the source directories were looked up, and are not used
            Exit(c, 0, {Msg("not-installed", NoName, 0)})
       ELSE Continue([c EXCEPT !.implicit_srcs = CandidateRoots(having),
                               !.installed_version = RecordOf(installed, k).version],
                     "u_iter", {})
    /\ UNCHANGED <<installed, kitDir, index, files, tmpDir, faults>>
    /\ UNCHANGED <<project, io, call, before>>

\* the steps of one iteration that replace the installation by the source
Replace(k, root, src, source_version) ==
    LET copied == CopyTree(root, src)
        new_meta == OrMeta(extract_manifest_metadata(k, copied.manifest),
                           Meta(k, source_version))
        res == copy_kit_content_assets(root, k, src, index, files)
    IN [installed |-> record_install(installed, new_meta, k, "env-repository-update"),
        dir |-> StripCustomizations(ensure_minimal_kit_yaml(copied)),
        index |-> res.index,
        files |-> res.files,
        msgs |-> res.msgs
                   \cup (IF res.written # <<>>
                         THEN {Msg("refreshed", NoName, Len(res.written))} ELSE {})
                   \cup {Msg("updated", NoName, 0)}]

\* an update that records the new version before the directory is replaced
RecordedBeforeReplace(list, recorded) == recorded

\* the list after a refused rmtree or copytree: record_install comes after both
ListAfterFailedReplace(list, recorded) == list

\* a dry-run flag that is never honoured
DryRunIgnored(c) == FALSE

\* if dry_run:
IsDryRun(c) == c.dry_run

\* the version comparison of one iteration
UpdateCmp(src) ==
    compare(OrZero(cmd.installed_version),
            OrZero(extract_manifest_metadata(cmd.kit, src.manifest).version))

\* one iteration of the loop over source_dirs; src is the source directory
\* found at the root, fault the directory operation the file system refuses
UpdateIter(fault, src) ==
    /\ pc = "u_iter"
    /\ Obliges(fault = "none")
    /\ LET k == cmd.kit IN
       IF cmd.implicit_srcs = <<>>
       THEN /\ fault = "none"
            /\ src = NoSrc
            /\ Finish(0, {})
            /\ UNCHANGED <<installed, kitDir, index, files>>
       ELSE LET root == Head(cmd.implicit_srcs)
                source_version ==
                    OrZero(extract_manifest_metadata(k, src.manifest).version)
                cmp == UpdateCmp(src)
            IN /\ src # NoSrc
               /\ IF IsDryRun(cmd)
                  THEN /\ fault = "none"
                       /\ Finish(0, {Msg(IF cmp < 0 THEN "dry-run-update-available"
                                         ELSE "dry-run-no-update", NoName, 0)})
                       /\ UNCHANGED <<installed, kitDir, index, files>>
                  ELSE IF cmp >= 0
                  THEN /\ fault = "none"
                       /\ Finish(0, {Msg("no-newer-version", NoName, 0)})
                       /\ UNCHANGED <<installed, kitDir, index, files>>
                  ELSE IF fault = "rmtree"
                  THEN /\ kitDir[k].exists
                       /\ \E d \in RmFailures(kitDir[k]) :
                             kitDir' = [kitDir EXCEPT ![k] = d]
                       /\ Finish(6, {Msg("remove-failed", NoName, 0)})
                       /\ installed' = ListAfterFailedReplace(installed,
                              Replace(k, root, src, source_version).installed)
                       /\ UNCHANGED <<index, files>>
                  ELSE IF fault = "copytree"
                  THEN /\ \E d \in CopyFailures(root, src) :
                             kitDir' = [kitDir EXCEPT ![k] = d]
                       /\ Finish(6, {Msg("copy-failed", NoName, 0)})
                       /\ installed' = ListAfterFailedReplace(installed,
                              Replace(k, root, src, source_version).installed)
                       /\ UNCHANGED <<index, files>>
                  ELSE LET new == Replace(k, root, src, source_version)
                       IN /\ installed' = new.installed
                          /\ kitDir' = [kitDir EXCEPT ![k] = new.dir]
                          /\ index' = new.index
                          /\ files' = new.files
                          /\ out' = out \cup new.msgs
                          /\ cmd' = [cmd EXCEPT !.implicit_srcs = Tail(@)]
                          /\ UNCHANGED <<pc, exitCode>>
    /\ UNCHANGED tmpDir
    /\ UNCHANGED <<project, io, call, before>>

(* ------------------------------------------------------------------ *)
(* uninstall                                                           *)
(* ------------------------------------------------------------------ *)
\* an uninstall that writes the shortened list before it removes the directory
WrittenBeforeRemoval(list, remaining) == remaining

\* the list on disk when rmtree raises: write_installed_kits(root, remaining)
\* comes after the removal, so the list is still the one that was loaded
ListAfterFailedRemoval(list, remaining) == list

\* vibekit uninstall k
Uninstall(k, ok) ==
    /\ pc = "idle"
    /\ Obliges(ok)
    /\ LET c == Invoke("uninstall", k, FALSE, FALSE)
           remaining == WithoutId(installed, k)
           was_installed == Len(remaining) # Len(installed)
           gone == remove_kit_from_custom_index(index, k)
       IN IF ~was_installed
          THEN /\ ok
               /\ Exit(c, 0, {Msg("not-installed", NoName, 0)})
               /\ UNCHANGED <<installed, kitDir, index, files>>
          ELSE IF kitDir[k].exists /\ ~ok
          THEN /\ \E d \in RmFailures(kitDir[k]) :
                     kitDir' = [kitDir EXCEPT ![k] = d]
               /\ installed' = ListAfterFailedRemoval(installed, remaining)
               /\ Exit(c, 6, {Msg("remove-failed", NoName, 0)})
               /\ UNCHANGED <<index, files>>
          ELSE /\ ok
               /\ kitDir' = [kitDir EXCEPT ![k] = NoDir]
               /\ installed' = remaining
               /\ index' = gone.index
               /\ files' = [d \in Dests |-> IF d \in gone.removed THEN NoFile ELSE files[d]]
               /\ Exit(c, 0, (IF kitDir[k].exists THEN {}
                             ELSE {Msg("directory-missing", NoName, 0)})
                            \cup {Msg("removed-asset", d.name, 0) :
                                     d \in {x \in gone.removed : Exists(files, x)}}
                            \cup {Msg("uninstalled", NoName, 0)})
    /\ UNCHANGED tmpDir
    /\ UNCHANGED <<project, io, call, before>>

(* ------------------------------------------------------------------ *)
(* init, and edits of the directory tree made outside the CLI          *)
(* ------------------------------------------------------------------ *)
\* what the commands leave alone while the directory tree is at work
kitState == <<installed, kitDir, index, files, tmpDir, faults>>

\* what the template repository ships besides .git: always the baseline
\* .vibe-kit directory, and possibly other entries
Templates == {[state |-> TRUE, other |-> o] : o \in BOOLEAN}

\* init's argument: "" stands for None (in place), otherwise a directory name
ProjectDirs == {""} \cup DirNames

\* the sub-directories of d that exist
SubDirs(t, d) ==
    {Append(d, n) : n \in {x \in DirNames : Len(d) < MaxDepth /\ t[Append(d, x)].exists}}

\* an emptiness test that overlooks the .vibe-kit directory
IsEmptyButState(t, d) == ~t[d].other /\ SubDirs(t, d) = {}

\* not any(target_dir.iterdir())
IsEmptyDir(t, d) == ~t[d].state /\ ~t[d].other /\ SubDirs(t, d) = {}

\* (Path.cwd() / project_dir).resolve(), or Path.cwd().resolve()
TargetDir(from, project_dir) ==
    IF project_dir = "" THEN from ELSE Append(from, project_dir)

\* vibekit init [project_dir]; tmpl is what the template repository ships,
\* ok whether git clone succeeds
RunInit(project_dir, tmpl, ok) ==
    /\ pc = "idle"
    /\ Len(cwd) + (IF project_dir = "" THEN 0 ELSE 1) <= MaxDepth
    /\ LET c == Invoke("init", "", FALSE, FALSE)
           in_place == project_dir = ""
           target_dir == TargetDir(cwd, project_dir)
           made == [fs EXCEPT ![target_dir].exists = TRUE]
           msgs == (IF in_place /\ ~IsEmptyDir(fs, target_dir)
                    THEN {Msg("not-empty-warning", NoName, 0)} ELSE {})
                   \cup (IF fs[target_dir].state
                          THEN {Msg("baseline-present", NoName, 0)} ELSE {})
       IN /\ initDir' = target_dir
          /\ IF ~in_place /\ fs[target_dir].exists /\ ~IsEmptyDir(fs, target_dir)
             THEN \* typer.BadParameter: a usage error, exit code 2
                  /\ ok
                  /\ tmpl.other
                  /\ Exit(c, 2, {Msg("bad-parameter", NoName, 0)})
                  /\ UNCHANGED fs
             ELSE IF ~ok
             THEN /\ tmpl.other
                  /\ fs' = made
                  /\ Exit(c, 1, msgs \cup {Msg("clone-failed", NoName, 0)})
             ELSE /\ fs' = [made EXCEPT ![target_dir].state = @ \/ tmpl.state,
                                          ![target_dir].other = @ \/ tmpl.other]
                  /\ Exit(c, 0, msgs \cup {Msg(IF in_place THEN "template-applied"
                                                ELSE "project-created", NoName, 0)})
    /\ UNCHANGED <<cwd, kitState>>
    /\ UNCHANGED <<io, call, before>>

\* the user makes the directory d, whose parent exists
UserMakeDir(d) ==
    /\ pc = "idle"
    /\ d # <<>>
    /\ ~fs[d].exists
    /\ fs[SubSeq(d, 1, Len(d) - 1)].exists
    /\ fs' = [fs EXCEPT ![d].exists = TRUE]
    /\ cmd' = NoCmd
    /\ out' = {}
    /\ exitCode' = 0
    /\ initDir' = <<>>
    /\ UNCHANGED <<cwd, pc, kitState>>
    /\ UNCHANGED <<io, call, before>>

\* the user puts a file of their own into the directory d
UserWriteFile(d) ==
    /\ pc = "idle"
    /\ fs[d].exists
    /\ ~fs[d].other
    /\ fs' = [fs EXCEPT ![d].other = TRUE]
    /\ cmd' = NoCmd
    /\ out' = {}
    /\ exitCode' = 0
    /\ initDir' = <<>>
    /\ UNCHANGED <<cwd, pc, kitState>>
    /\ UNCHANGED <<io, call, before>>

\* the user changes the working directory
ChangeDir(d) ==
    /\ pc = "idle"
    /\ fs[d].exists
    /\ d # cwd
    /\ cwd' = d
    /\ cmd' = NoCmd
    /\ out' = {}
    /\ exitCode' = 0
    /\ initDir' = <<>>
    /\ UNCHANGED <<fs, pc, kitState>>
    /\ UNCHANGED <<io, call, before>>

\* [current, *current.parents]: the directory itself, then its ancestors,
\* nearest first
Ancestors(start) == [i \in 1..(Len(start) + 1) |-> SubSeq(start, 1, Len(start) + 1 - i)]

\* a resolution that never looks above the start directory
resolve_in_place(t, start) == start

\* resolve_state_root(start): the first of start and its ancestors that holds
\* a .vibe-kit directory, start when none does
resolve_state_root(t, start) ==
    LET chain == Ancestors(start)
        hits == {i \in DOMAIN chain : t[chain[i]].state}
    IN IF hits = {} THEN start
       ELSE chain[CHOOSE i \in hits : \A j \in hits : i <= j]

\* vibekit install k seen from the directory tree: the state root is resolved
\* from the working directory, .vibe-kit/innovation-kits is made there, and
\* the kit is copied and recorded there when a source directory is found
InstallAt(k, found) ==
    /\ pc = "idle"
    /\ LET c == Invoke("install", k, FALSE, FALSE)
           root == resolve_state_root(fs, cwd)
       IN IF k \in fs[root].kits
          THEN /\ found
               /\ Exit(c, 0, {Msg("already-installed", NoName, 0)})
               /\ UNCHANGED fs
          ELSE IF ~found
          THEN /\ fs' = [fs EXCEPT ![root].state = TRUE]
               /\ Exit(c, 2, {Msg("unknown-kit", NoName, 0)})
          ELSE /\ fs' = [fs EXCEPT ![root].state = TRUE, ![root].kits = @ \cup {k}]
               /\ Exit(c, 0, {Msg("installed", NoName, 0)})
    /\ initDir' = <<>>
    /\ UNCHANGED <<cwd, kitState>>
    /\ UNCHANGED <<io, call, before>>

(* ------------------------------------------------------------------ *)
(* assets.py: the index file on disk                                   *)
(* ------------------------------------------------------------------ *)
\* everything but the index file as bytes
others == <<installed, kitDir, index, files, tmpDir, pc, cmd, out, exitCode, faults,
            fs, cwd, initDir, call, before>>

\* a write that goes straight to the index file
in_place(p) == p

\* p.with_suffix(".tmp")
with_suffix_tmp(p) == "customizations-index.tmp"

\* tmp.replace(p): an atomic rename; renaming a file onto itself does nothing
replace(fls, from, to) ==
    IF from = to THEN fls ELSE [fls EXCEPT ![to] = fls[from], ![from] = Absent]

\* _write_index(state_dir, data), up to the opening of the .tmp file for
\* writing, which creates or truncates it
WriteIndexOpen(data) ==
    /\ io.wpc = "idle"
    /\ io' = [io EXCEPT !.wpc = "writing", !.data = data,
                        !.prev = io.files[_index_path],
                        !.files[with_suffix_tmp(_index_path)] = <<>>]
    /\ UNCHANGED others

\* write_text: the next piece of the text reaches the .tmp file
WriteIndexChunk ==
    /\ io.wpc = "writing"
    /\ LET tmp == with_suffix_tmp(_index_path)
           text == dumps(io.data)
           sofar == io.files[tmp]
       IN /\ Len(sofar) < Len(text)
          /\ io' = [io EXCEPT !.files[tmp] = Append(sofar, text[Len(sofar) + 1])]
    /\ UNCHANGED others

\* tmp.replace(p), once write_text has returned
WriteIndexReplace ==
    /\ io.wpc = "writing"
    /\ LET tmp == with_suffix_tmp(_index_path)
       IN /\ io.files[tmp] = dumps(io.data)
          /\ io' = [io EXCEPT !.wpc = "idle",
                              !.files = replace(io.files, tmp, _index_path)]
    /\ UNCHANGED others

\* the writing process dies at whatever step it had reached
Crash ==
    /\ io.wpc = "writing"
    /\ io' = [io EXCEPT !.wpc = "idle"]
    /\ UNCHANGED others

\* p.read_text() by another process, at any moment
ReadIndex ==
    /\ io' = [io EXCEPT !.seen = io.files[_index_path]]
    /\ io'.seen # io.seen
    /\ UNCHANGED others

(* ------------------------------------------------------------------ *)
(* Specification                                                       *)
(* ------------------------------------------------------------------ *)
\* the commands on a file system that refuses the operations named in
\* oks and refusals, run with the kit in the root sets and with the
\* --dry-run flags given
NextOn(oks, refusals, rootsets, dries) ==
    \/ \E k \in Kits, dir \in UserDirs : UserCreateDir(k, dir)
    \/ \E k \in Kits, remote \in BOOLEAN, having \in rootsets : Install(k, remote, having)
    \/ \E outcome \in {"ok", "value-error", "runtime-error", "other-error"},
         kit \in RemoteKits :
          InstallDownload(outcome, kit)
    \/ \E ok \in oks, found \in SourceKits \cup {NoSrc} : InstallCopy(ok, found)
    \/ InstallRecord
    \/ InstallExtract
    \/ \E k \in Kits, dry \in dries, having \in rootsets : Update(k, dry, having)
    \/ \E fault \in refusals, src \in SourceKits \cup {NoSrc} :
          UpdateIter(fault, src)
    \/ \E k \in Kits, ok \in oks : Uninstall(k, ok)

\* no file-system operation is refused
Next == NextOn({TRUE}, {"none"}, RootSets, BOOLEAN)
Spec == Init /\ [][Next]_vars

\* up to MaxFaults directory operations are refused; the kits are looked up
\* in the first repo root only and updates are real ones
NextFaulty ==
    NextOn(BOOLEAN, {"none", "rmtree", "copytree"}, SUBSET {RepoRoots[1]}, {FALSE})
SpecFaults == Init /\ [][NextFaulty]_vars

\* the kit installed from the directories of the tree
ProjectKits == {"a-kit"}

\* the commands over one repo root, and files the user puts by hand into the
\* directories of the customization files
NextUserFiles ==
    \/ NextOn({TRUE}, {"none"}, SUBSET {RepoRoots[1]}, {FALSE})
    \/ \E d \in Dests : UserPutFile(d)
SpecUserFiles == Init /\ [][NextUserFiles]_vars

\* init, install and the edits of the directory tree
NextProject ==
    \/ \E project_dir \in ProjectDirs, tmpl \in Templates, ok \in BOOLEAN :
          RunInit(project_dir, tmpl, ok)
    \/ \E d \in Dirs : UserMakeDir(d)
    \/ \E d \in Dirs : UserWriteFile(d)
    \/ \E d \in Dirs : ChangeDir(d)
    \/ \E k \in ProjectKits, found \in BOOLEAN : InstallAt(k, found)
SpecProject == Init /\ [][NextProject]_vars

\* compare(a, b) called on every pair of version strings
InitCompare ==
    /\ installed = <<>>
    /\ kitDir = [k \in Kits |-> NoDir]
    /\ index = {}
    /\ files = [d \in Dests |-> NoFile]
    /\ tmpDir = NoSrc
    /\ pc = "idle"
    /\ cmd = NoCmd
    /\ out = {}
    /\ exitCode = 0
    /\ faults = 0
    /\ fs = [d \in Dirs |-> IF d = <<>> THEN [NoTree EXCEPT !.exists = TRUE]
                                         ELSE NoTree]
    /\ cwd = <<>>
    /\ initDir = <<>>
    /\ io = NoIO
    /\ call \in [a : VersionStrings, b : VersionStrings, result : {<<>>}]
    /\ before = NoNote

Compare ==
    /\ call.result = <<>>
    /\ call' = [call EXCEPT !.result = <<compare(call.a, call.b)>>]
    /\ UNCHANGED <<installed, kitDir, index, files, tmpDir, pc, cmd, out, exitCode,
                   faults, fs, cwd, initDir, io, before>>

NextCompare == Compare
SpecCompare == InitCompare /\ [][NextCompare]_vars

\* writers of the index file, their crashes, and a concurrent reader
NextIndex ==
    \/ \E data \in Docs : WriteIndexOpen(data)
    \/ WriteIndexChunk
    \/ WriteIndexReplace
    \/ Crash
    \/ ReadIndex
SpecIndex == Init /\ [][NextIndex]_vars

(* ------------------------------------------------------------------ *)
(* install followed by uninstall                                       *)
(* ------------------------------------------------------------------ *)
\* the records of the list as a set
Records(list) == {list[i] : i \in 1..Len(list)}

\* between two commands the disk is noted for a kit that is not recorded
\* and has no directory
NoteDisk(k) ==
    /\ pc = "idle"
    /\ ~before.noted
    /\ k \notin Ids(installed)
    /\ ~kitDir[k].exists
    /\ before' = [noted |-> TRUE, kit |-> k, installed |-> Records(installed),
                  kitDir |-> kitDir, index |-> index, files |-> files]
    /\ UNCHANGED <<installed, kitDir, index, files, tmpDir, pc, cmd, out, exitCode,
                   faults, project, io, call>>

\* the note is dropped
DropNote ==
    /\ pc = "idle"
    /\ before.noted
    /\ before' = NoNote
    /\ UNCHANGED <<installed, kitDir, index, files, tmpDir, pc, cmd, out, exitCode,
                   faults, project, io, call>>

\* the last command was an install of k that ended with exit code 0
InstallSucceeded(k) ==
    pc = "idle" /\ cmd.op = "install" /\ cmd.kit = k /\ exitCode = 0

\* once the disk is noted for a kit, the commands run are an install of that
\* kit and, after its success, its uninstall
NotedInstall(k, remote, having) ==
    /\ before.noted => (before.kit = k /\ k \notin Ids(installed) /\ ~kitDir[k].exists)
    /\ Install(k, remote, having)

NotedUpdate(k, having) ==
    /\ ~before.noted
    /\ Update(k, FALSE, having)

NotedUninstall(k) ==
    /\ before.noted => (before.kit = k /\ InstallSucceeded(k))
    /\ Uninstall(k, TRUE)

NextRoundTrip ==
    \/ \E k \in Kits : NoteDisk(k)
    \/ DropNote
    \/ \E k \in Kits, remote \in BOOLEAN, having \in RootSets :
          NotedInstall(k, remote, having)
    \/ \E outcome \in {"ok", "value-error", "runtime-error", "other-error"},
         kit \in RemoteKits :
          InstallDownload(outcome, kit)
    \/ \E found \in SourceKits \cup {NoSrc} : InstallCopy(TRUE, found)
    \/ InstallRecord
    \/ InstallExtract
    \/ \E k \in Kits, having \in SUBSET {RepoRoots[1]} : NotedUpdate(k, having)
    \/ \E src \in SourceKits \cup {NoSrc} : UpdateIter("none", src)
    \/ \E k \in Kits : NotedUninstall(k)
SpecRoundTrip == Init /\ [][NextRoundTrip]_vars

(* ------------------------------------------------------------------ *)
(* Properties                                                          *)
(* ------------------------------------------------------------------ *)
\* the records of the installed-kits list that carry the id
RecordsWithId(list, id) == {i \in 1..Len(list) : list[i].id = id}

\* C1: install K, run when K is recorded in the installed-kits list, ends at
\* once with exit code 0 and changes nothing: the list still holds exactly
\* one record with id K, and K's directory, the customization index and the
\* customization files are what they were.
C1_ReinstallIsNoOp ==
    [][(pc = "idle" /\ cmd'.op = "install"
          /\ RecordsWithId(installed, cmd'.kit) # {})
       => /\ pc' = "idle"
          /\ exitCode' = 0
          /\ Cardinality(RecordsWithId(installed', cmd'.kit)) = 1
          /\ installed' = installed
          /\ kitDir' = kitDir
          /\ index' = index
          /\ files' = files]_vars

\* a second install of a kit that owns customization files has ended
C1_Witness ==
    /\ pc = "idle"
    /\ cmd.op = "install"
    /\ exitCode = 0
    /\ Msg("already-installed", NoName, 0) \in out
    /\ RecordsWithId(installed, cmd.kit) # {}
    /\ kitDir[cmd.kit].exists
    /\ \E e \in index : e.kit = cmd.kit /\ files[e.bundle] # NoFile

\* C2: whatever install, update and uninstall commands have run since the
\* empty list, the installed-kits list holds at most one record per id.
C2_OneRecordPerId ==
    \A i, j \in 1..Len(installed) :
        installed[i].id = installed[j].id => i = j

\* a recorded kit has been recorded again by an update, next to another kit
C2_Witness ==
    /\ Len(installed) = 2
    /\ \E i \in 1..Len(installed) : installed[i].source = "env-repository-update"
    /\ \E i \in 1..Len(installed) : installed[i].source = "existing-directory"

\* C3: when install B extracts the customizations of its source and another
\* kit A owns, in the index, the name of a classified file B ships, the file
\* in the state directory keeps A's content, the index keeps the name under
\* A and not under B, B reports the skip and is recorded; and the install
\* whose sources are all processed ends with exit code 0, changing nothing more.
C3_FirstWriterWins ==
    [][/\ (pc = "i_extract" /\ cmd.implicit_src.custom)
          => \A p \in cmd.implicit_src.tree : \A e \in index :
                (/\ e.kit # cmd.kit
                 /\ Category(FileName(p)) # NoCategory
                 /\ e.category = Category(FileName(p))
                 /\ e.filename = FileName(p))
                => /\ files[e.bundle].kit = e.kit
                   /\ files'[e.bundle] = files[e.bundle]
                   /\ e \in index'
                   /\ ~\E x \in index' : /\ x.kit = cmd.kit
                                         /\ x.category = e.category
                                         /\ x.filename = e.filename
                   /\ Msg("skip-conflict", FileName(p), 0) \in out'
                   /\ RecordsWithId(installed', cmd.kit) # {}
       /\ (pc = "i_copy" /\ cmd.implicit_srcs = <<>>)
          => /\ pc' = "idle"
             /\ exitCode' = 0
             /\ UNCHANGED disk]_vars

\* the second of two installs has skipped a file the first kit owns and
\* copied another file of its own
C3_Witness ==
    /\ pc = "idle"
    /\ cmd.op = "install"
    /\ exitCode = 0
    /\ \E p \in RelPaths : Msg("skip-conflict", FileName(p), 0) \in out
    /\ Msg("copied", NoName, 1) \in out
    /\ \A k \in Kits : RecordsWithId(installed, k) # {}
    /\ \E e \in index : e.kit # cmd.kit /\ files[e.bundle].kit = e.kit

\* C4: whatever install, update and uninstall commands have run, no
\* (category, filename) pair is recorded under two kits in the index.
C4_OneOwnerPerName ==
    \A e1, e2 \in index :
        (e1.category = e2.category /\ e1.filename = e2.filename)
        => e1.kit = e2.kit

\* both kits own customization files, and one of them was refused a name
\* the other owns
C4_Witness ==
    /\ \A k \in Kits : \E e \in index : e.kit = k
    /\ \E p \in RelPaths : Msg("skip-conflict", FileName(p), 0) \in out

\* C5: a non-dry-run update of K changes the installed-kits list, K's
\* directory, the index or the customization files only in a step whose
\* source version compares strictly greater than the version recorded for K
\* when the step is taken, for every source directory it processes.  (The
\* source version of a step that replaces the installation is the version
\* of the record the step writes.)
C5_MutatesOnlyWhenNewer ==
    [][(cmd'.op = "update" /\ ~cmd'.dry_run /\ disk' # disk)
       => /\ RecordsWithId(installed, cmd'.kit) # {}
          /\ compare(OrZero(RecordOf(installed, cmd'.kit).version),
                     OrZero(RecordOf(installed', cmd'.kit).version)) < 0]_vars

\* C6: update K --dry-run leaves the installed-kits list, the kit
\* directories, the index and the customization files as they are, whatever
\* the version comparison says and however many source directories there are.
C6_DryRunChangesNothing ==
    [][(cmd'.op = "update" /\ cmd'.dry_run) => UNCHANGED disk]_vars

\* a dry run has found a newer version in a source directory
C6_Witness ==
    /\ pc = "idle"
    /\ cmd.op = "update"
    /\ cmd.dry_run
    /\ Msg("dry-run-update-available", NoName, 0) \in out

\* C7: an uninstall of a recorded kit K that ends with exit code 0 leaves no
\* record with id K in the list, no directory innovation-kits/K, no entry of
\* K in the index, and none of the bundle files the index recorded for K.
C7_UninstallRemovesEverything ==
    [][(/\ pc = "idle"
        /\ cmd'.op = "uninstall"
        /\ RecordsWithId(installed, cmd'.kit) # {}
        /\ pc' = "idle"
        /\ exitCode' = 0)
       => /\ RecordsWithId(installed', cmd'.kit) = {}
          /\ ~kitDir'[cmd'.kit].exists
          /\ ~\E e \in index' : e.kit = cmd'.kit
          /\ \A e \in index : e.kit = cmd'.kit => files'[e.bundle] = NoFile]_vars

\* a kit that owned customization files has been uninstalled
C7_Witness ==
    /\ pc = "idle"
    /\ cmd.op = "uninstall"
    /\ exitCode = 0
    /\ Msg("uninstalled", NoName, 0) \in out
    /\ \E p \in RelPaths : Msg("removed-asset", FileName(p), 0) \in out
    /\ RecordsWithId(installed, cmd.kit) = {}
    /\ ~kitDir[cmd.kit].exists

\* the classified files of a source that no other kit owns in the index
Shipped(idx, kit, src) ==
    {p \in (IF src.custom THEN src.tree ELSE {}) :
        /\ Category(FileName(p)) # NoCategory
        /\ ~\E e \in idx : /\ e.kit # kit
                           /\ e.category = Category(FileName(p))
                           /\ e.filename = FileName(p)}

\* C8: when an iteration of update K replaces the installation by a source
\* whose version is newer than the recorded one, the files K owns afterwards
\* are exactly the classified files of that source that no other kit owns:
\* the index records them under K and nothing else, each carries content of
\* the new source, and every file K owned before that the source no longer
\* ships is gone from disk -- also when the source has no customizations
\* folder.
C8_UpdateReplacesCustomizations ==
    [][\A src \in SourceKits :
          (/\ UpdateIter("none", src)
           /\ pc' = "u_iter"
           /\ compare(OrZero(RecordOf(installed, cmd.kit).version),
                      OrZero(src.manifest)) < 0)
          => LET k == cmd.kit
                 root == Head(cmd.implicit_srcs)
                 shipped == Shipped(index, k, src)
                 owned == {e \in index' : e.kit = k}
             IN /\ {e.bundle : e \in owned}
                     = {Dest(Category(FileName(p)), FileName(p)) : p \in shipped}
                /\ \A e \in owned : \E p \in shipped :
                      /\ e.bundle = Dest(Category(FileName(p)), FileName(p))
                      /\ files'[e.bundle] = Content(root, k, src, p)
                /\ \A e \in index :
                      (e.kit = k /\ e.bundle \notin {x.bundle : x \in owned})
                      => files'[e.bundle] = NoFile]_vars

\* C9: an install of K whose remote download succeeded has, when it ends,
\* exit code 0, the downloaded tree in innovation-kits/K and a record of K
\* with source 'env-remote' and the version of the remote metadata.
C9_RemoteInstallRecords ==
    (/\ pc = "idle"
     /\ cmd.op = "install"
     /\ Msg("repository-source-env-remote", NoName, 0) \in out)
    => /\ exitCode = 0
       /\ kitDir[cmd.kit].exists
       /\ kitDir[cmd.kit].origin = TempRoot
       /\ RecordsWithId(installed, cmd.kit) # {}
       /\ RecordOf(installed, cmd.kit).source = "env-remote"
       /\ RecordOf(installed, cmd.kit).version = cmd.remote_manifest_meta.version

\* C10: install K, run when innovation-kits/K exists and K is not recorded,
\* ends with exit code 0 and appends one record to the list: id K, source
\* 'existing-directory', the version of the directory's manifest or 0.0.0
\* when it has none; the directory, the index and the customization files
\* stay as they are.
C10_DriftAdoption ==
    [][(/\ pc = "idle"
        /\ cmd'.op = "install"
        /\ RecordsWithId(installed, cmd'.kit) = {}
        /\ kitDir[cmd'.kit].exists)
       => /\ pc' = "idle"
          /\ exitCode' = 0
          /\ Len(installed') = Len(installed) + 1
          /\ SubSeq(installed', 1, Len(installed)) = installed
          /\ installed'[Len(installed')].id = cmd'.kit
          /\ installed'[Len(installed')].source = "existing-directory"
          /\ installed'[Len(installed')].version =
                 (IF kitDir[cmd'.kit].manifest = NoVersion THEN V000
                  ELSE kitDir[cmd'.kit].manifest)
          /\ kitDir' = kitDir
          /\ index' = index
          /\ files' = files]_vars

\* a hand-made directory with a manifest has been adopted while the other
\* kit owns customization files
C10_Witness ==
    /\ pc = "idle"
    /\ cmd.op = "install"
    /\ exitCode = 0
    /\ Msg("drift-reconciliation", NoName, 0) \in out
    /\ RecordsWithId(installed, cmd.kit) # {}
    /\ RecordOf(installed, cmd.kit).source = "existing-directory"
    /\ RecordOf(installed, cmd.kit).version = V100
    /\ kitDir[cmd.kit].origin = UserRoot
    /\ index # {}


\* C11 (as stated): a second init on the target of a successful first init,
\* from the same working directory and in the same mode, exits 0 and reports
\* that the baseline .vibe-kit state already exists whenever the template
\* clone succeeds
C11_InitTwiceNeverErrors ==
    [][\A project_dir \in ProjectDirs, tmpl \in Templates :
          ( /\ cmd.op = "init"
            /\ exitCode = 0
            /\ initDir = TargetDir(cwd, project_dir)
            /\ RunInit(project_dir, tmpl, TRUE) )
          => /\ exitCode' = 0
             /\ Msg("baseline-present", NoName, 0) \in out']_vars

\* C11 (amended): in place, the second init exits 0 and reports the existing
\* baseline; with the same project_dir, the second init is rejected as a bad
\* parameter with a non-zero exit code and changes no directory
C11_InitTwice ==
    [][\A project_dir \in ProjectDirs, tmpl \in Templates :
          ( /\ cmd.op = "init"
            /\ exitCode = 0
            /\ initDir = TargetDir(cwd, project_dir)
            /\ RunInit(project_dir, tmpl, TRUE) )
          => IF project_dir = ""
             THEN /\ exitCode' = 0
                  /\ Msg("baseline-present", NoName, 0) \in out'
             ELSE /\ exitCode' # 0
                  /\ out' = {Msg("bad-parameter", NoName, 0)}
                  /\ fs' = fs]_vars

\* a second init with the same project_dir has just been rejected
C11_Witness ==
    /\ cmd.op = "init"
    /\ pc = "idle"
    /\ initDir # cwd
    /\ fs[initDir].state
    /\ Msg("bad-parameter", NoName, 0) \in out

\* d is start or one of its ancestors
IsAncestorOrSelf(d, start) == Len(d) <= Len(start) /\ d = SubSeq(start, 1, Len(d))

\* for every directory, resolve_state_root answers the nearest directory among
\* start and its ancestors that contains .vibe-kit, and start when none does
NearestStateRoot ==
    \A start \in Dirs :
        LET r == resolve_state_root(fs, start)
            holders == {d \in Dirs : IsAncestorOrSelf(d, start) /\ fs[d].state}
        IN IF holders = {} THEN r = start
           ELSE /\ r \in holders
                /\ \A d \in holders : Len(d) <= Len(r)

\* a successful install run from a directory below an initialized project
\* records the kit in the nearest ancestor's .vibe-kit and neither creates
\* .vibe-kit in the working directory nor touches another directory
NestedInstallUsesAncestor ==
       \A k \in Kits :
          ( /\ cmd'.op = "install"
            /\ cmd'.kit = k
            /\ exitCode' = 0
            /\ ~fs[cwd].state
            /\ \E a \in Dirs : a # cwd /\ IsAncestorOrSelf(a, cwd) /\ fs[a].state )
          => \E a \in Dirs :
                /\ a # cwd /\ IsAncestorOrSelf(a, cwd) /\ fs[a].state
                /\ \A d \in Dirs :
                      (d # a /\ IsAncestorOrSelf(d, cwd) /\ fs[d].state) => Len(d) < Len(a)
                /\ k \in fs'[a].kits
                /\ ~fs'[cwd].state
                /\ \A d \in Dirs : d # a => fs'[d] = fs[d]

\* C12: resolveStateRoot(start) is the nearest directory among start and its
\* ancestors that contains .vibe-kit, and start when none does; an install
\* run from a nested directory of an initialized project records and copies
\* the kit into the ancestor's .vibe-kit and creates no .vibe-kit in the
\* nested directory
C12_ResolveStateRoot == [][NearestStateRoot' /\ NestedInstallUsesAncestor]_vars

\* a kit was installed from a nested directory into the state of an ancestor
C12_Witness ==
    /\ cmd.op = "install"
    /\ pc = "idle"
    /\ exitCode = 0
    /\ Len(cwd) = MaxDepth
    /\ ~fs[cwd].state
    /\ resolve_state_root(fs, cwd) # cwd
    /\ cmd.kit \in fs[resolve_state_root(fs, cwd)].kits

C14_TempDirRemoved ==
    [][pc' = "idle" => ~tmpDir'.exists]_vars

\* an install from a remote source had its temporary directory and has ended
\* on a download failure, with exit code 6
C14_Witness ==
    /\ pc = "idle"
    /\ cmd.op = "install"
    /\ cmd.remote
    /\ exitCode = 6
    /\ Msg("download-failed", NoName, 0) \in out
    /\ ~tmpDir.exists

\* a whole document, or no file at all
IsComplete(text) == text = Absent \/ \E d \in Docs : text = dumps(d)

\* C15: while writeIndex runs, and after a crash at any of its steps, the
\* index file holds either the complete previous document or the complete new
\* one, and a concurrent reader never reads a partially written document
C15_IndexNeverPartial ==
    /\ IsComplete(io.files[_index_path])
    /\ IsComplete(io.seen)
    /\ io.wpc = "writing" => io.files[_index_path] = io.prev
    /\ io.files[_index_path] \in {io.prev, dumps(io.data)}

\* a reader has read the previous document while the .tmp file of the next
\* one was partly written
C15_Witness ==
    /\ io.wpc = "writing"
    /\ io.prev # Absent
    /\ io.seen = io.prev
    /\ dumps(io.data) # io.prev
    /\ Len(io.files[with_suffix_tmp(_index_path)]) \in 1..(Len(dumps(io.data)) - 1)

\* the sign of the lexicographic comparison of two sequences of numbers, a
\* proper prefix being the smaller
LexSign(s, t) ==
    LET n == IF Len(s) < Len(t) THEN Len(s) ELSE Len(t)
        diffs == {i \in 1..n : s[i] # t[i]}
        first == CHOOSE i \in diffs : \A j \in diffs : i <= j
    IN IF diffs # {} THEN (IF s[first] < t[first] THEN -1 ELSE 1)
       ELSE IF Len(s) < Len(t) THEN -1
       ELSE IF Len(s) > Len(t) THEN 1
       ELSE 0

C17_ForeignFilesUntouched ==
    [][\A k \in Kits : \A d \in Dests :
          ( /\ cmd'.kit = k
            /\ cmd'.op \in {"install", "update", "uninstall"}
            /\ Exists(files, d)
            /\ \A e \in index : e.kit = k => e.bundle # d )
          => /\ files'[d] = files[d]
             /\ \A e \in index' : e.kit = k => e.bundle # d]_vars

\* install has skipped a file of the kit because a file the user wrote was
\* in its place, and the user's file is still there, in no kit's entry
C17_Witness ==
    /\ cmd.op = "install"
    /\ pc = "idle"
    /\ exitCode = 0
    /\ \E d \in Dests :
          /\ files[d] = UserFile
          /\ Msg("skip-exists", d.name, 0) \in out
          /\ \A e \in index : e.bundle # d
          /\ \E e \in index : e.kit = cmd.kit

\* C18: uninstall K and update K, run when the installed-kits list has no
\* record of K, end at once with exit code 0 and leave the list, the kit
\* directories, the index and the customization files as they were, whatever
\* directory, index entry or source directory exists for K
C18_UnrecordedKitIsLeftAlone ==
    [][\A k \in Kits :
          ( /\ pc = "idle"
            /\ \A i \in 1..Len(installed) : installed[i].id # k
            /\ \/ \E dry \in BOOLEAN, having \in RootSets : Update(k, dry, having)
               \/ Uninstall(k, TRUE) )
          => /\ pc' = "idle"
             /\ exitCode' = 0
             /\ UNCHANGED <<installed, kitDir, index, files, tmpDir>>]_vars

\* update was run on a kit that has a directory made by hand and no record,
\* while another kit is installed with customization files
C18_Witness ==
    /\ pc = "idle"
    /\ cmd.op = "update"
    /\ Msg("not-installed", NoName, 0) \in out
    /\ kitDir[cmd.kit].exists
    /\ \A i \in 1..Len(installed) : installed[i].id # cmd.kit
    /\ installed # <<>>
    /\ index # {}

\* C19: in every step of an install of K from a source, K's record enters the
\* installed-kits list only when innovation-kits/K is already there, and a
\* customization file is written or indexed only when K's record is already
\* in the list and its directory copied
C19_CopyRecordExtract ==
    [][\A k \in Kits :
          (cmd'.op = "install" /\ cmd'.kit = k)
          => /\ ( /\ RecordsWithId(installed', k) # {}
                  /\ RecordsWithId(installed, k) = {} )
                => (kitDir[k].exists /\ index' = index /\ files' = files)
             /\ (index' # index \/ files' # files)
                => /\ RecordsWithId(installed, k) # {}
                   /\ installed' = installed
                   /\ kitDir[k].exists]_vars

\* install has copied the directory and persisted the record, and has not yet
\* extracted the customization files the directory holds
C19_Witness ==
    /\ cmd.op = "install"
    /\ pc = "i_extract"
    /\ RecordsWithId(installed, cmd.kit) # {}
    /\ kitDir[cmd.kit].custom
    /\ \A e \in index : e.kit # cmd.kit

\* C20: when install has resolved two repo roots that hold a directory for K,
\* the iteration on the second root finds K copied and recorded from the
\* first root, fails because the target directory exists and ends the command
\* with exit code 6, leaving K recorded with the directory and the
\* customization files of the first root
C20_SecondRootFails ==
    [][\A k \in Kits :
          (cmd.op = "install" /\ cmd.kit = k /\ pc' # pc)
          => /\ \* two roots resolved: the first iteration copies from the first
                (pc = "i_copy" /\ Len(cmd.implicit_srcs) >= 2)
                => /\ pc' = "i_record"
                   /\ kitDir'[k].exists
                   /\ kitDir'[k].origin = RepoRoots[1]
             /\ \* ... and records K
                (pc = "i_record" /\ Len(cmd.implicit_srcs) >= 2)
                => /\ pc' = "i_extract"
                   /\ \E i \in RecordsWithId(installed', k) :
                          installed'[i].source = "env-repository"
             /\ \* the iteration on the second root
                ( /\ pc = "i_copy"
                  /\ Len(cmd.implicit_srcs) = 1
                  /\ RecordsWithId(installed, k) # {} )
                => /\ pc' = "idle"
                   /\ exitCode' = 6
                   /\ Msg("copy-failed", NoName, 0) \in out'
                   /\ UNCHANGED <<installed, kitDir, index, files>>
                   /\ kitDir'[k].exists
                   /\ kitDir'[k].origin = RepoRoots[1]
                   /\ \A e \in index' :
                          e.kit = k => /\ files'[e.bundle].root = RepoRoots[1]
                                       /\ files'[e.bundle].kit = k]_vars

\* an install over two roots has ended with exit code 6, the kit recorded and
\* its directory and customization files taken from the first root
C20_Witness ==
    /\ pc = "idle"
    /\ cmd.op = "install"
    /\ exitCode = 6
    /\ Msg("copy-failed", NoName, 0) \in out
    /\ RecordsWithId(installed, cmd.kit) # {}
    /\ kitDir[cmd.kit].origin = RepoRoots[1]
    /\ \E e \in index : e.kit = cmd.kit /\ files[e.bundle].root = RepoRoots[1]

\* C21: an update of a recorded kit K for which no resolved repo root holds a
\* source directory ends with exit code 2 and the message that the package
\* was not found in the local repository
C21_UpdateWithoutSourceExitsTwo ==
    [][\A k \in Kits :
          ( /\ cmd.op = "update"
            /\ cmd.kit = k
            /\ pc = "u_iter"
            /\ cmd.implicit_srcs = <<>>
            /\ out = {}
            /\ pc' = "idle" )
          => /\ exitCode' = 2
             /\ Msg("package-not-found", NoName, 0) \in out']_vars

\* C22: an uninstall of a recorded kit K whose kit directory cannot be removed
\* ends with exit code 6 and leaves the installed-kits list, the index and
\* the customization files as they were: K is still recorded
C22_FailedUninstallKeepsRecord ==
    [][\A k \in Kits :
          ( /\ RecordsWithId(installed, k) # {}
            /\ kitDir[k].exists
            /\ Uninstall(k, FALSE) )
          => /\ pc' = "idle"
             /\ exitCode' = 6
             /\ UNCHANGED <<installed, index, files>>
             /\ RecordsWithId(installed', k) # {}]_vars

\* an uninstall has failed on the directory of a kit that owns customization
\* files, and the kit is still recorded with its files
C22_Witness ==
    /\ pc = "idle"
    /\ cmd.op = "uninstall"
    /\ exitCode = 6
    /\ Msg("remove-failed", NoName, 0) \in out
    /\ RecordsWithId(installed, cmd.kit) # {}
    /\ \E e \in index : e.kit = cmd.kit /\ Exists(files, e.bundle)

\* what C23 says of one run of the copy of K's assets from src: whatever the
\* order in which the tree is enumerated, the run ends in the same index and
\* files; and of two classified files with one filename that no other kit
\* holds and that is free on disk, the one that sorts first is copied, the
\* other is skipped as existing, and the entry lists only the copied one
DuplicatesCopiedOnce(k, root, src) ==
    LET prev == RemovePrevious(index, files, k)
        start == [files |-> prev.files, new_entry |-> {}, written |-> <<>>, msgs |-> {}]
    IN /\ \A enum \in rglob(src.tree) :
             LET done == CopyLoop(sorted(enum), root, k, src, prev.index, start)
             IN /\ files' = done.files
                /\ index' = prev.index \cup done.new_entry
       /\ \A p, q \in src.tree :
             LET name == FileName(p)
                 dest == Dest(Category(name), name)
             IN ( /\ Rank(p) < Rank(q)
                  /\ FileName(q) = name
                  /\ Category(name) # NoCategory
                  /\ \A e \in index : e.filename = name => e.kit = k
                  /\ ~Exists(prev.files, dest) )
                => /\ files'[dest] = Content(root, k, src, p)
                   /\ Msg("skip-exists", name, 0) \in out'
                   /\ \E e \in index' : e.kit = k /\ e.bundle = dest
                   /\ \A e \in index' :
                          (e.kit = k /\ e.bundle = dest) => e.sources = <<p>>

\* C23: when a kit's customizations tree holds two classified files with the
\* same filename in different subfolders, the copy of the kit's assets, in
\* install and in update, copies only the one whose relative path sorts
\* first, skips the other as already existing and lists only the copied file
\* as the source, whatever the order of the file system's enumeration
C23_FirstSortedDuplicateWins ==
    [][/\ (pc = "i_extract" /\ pc' # pc /\ cmd.implicit_src.custom)
          => DuplicatesCopiedOnce(cmd.kit, Head(cmd.implicit_srcs), cmd.implicit_src)
       /\ \A src \in SourceKits :
             (pc = "u_iter" /\ pc' = "u_iter" /\ src.custom /\ UpdateIter("none", src))
             => DuplicatesCopiedOnce(cmd.kit, Head(cmd.implicit_srcs), src)]_vars

\* an install has copied alpha.prompt.md from the top of the tree and skipped
\* nested/alpha.prompt.md
C23_Witness ==
    /\ pc = "idle"
    /\ cmd.op = "install"
    /\ Msg("skip-exists", FileName(SortedRelPaths[1]), 0) \in out
    /\ \E e \in index : e.kit = cmd.kit /\ e.sources = <<SortedRelPaths[1]>>
    /\ FileName(SortedRelPaths[3]) = FileName(SortedRelPaths[1])

\* a non-dry-run update of the kit ends with exit code 6
UpdateFails == cmd.op = "update" /\ pc = "u_iter" /\ pc' = "idle" /\ exitCode' = 6

DiskAsNoted ==
    /\ Records(installed) = before.installed
    /\ \A k \in Kits :
          /\ kitDir[k].exists = before.kitDir[k].exists
          /\ kitDir[k].exists => kitDir[k] = before.kitDir[k]
    /\ index = before.index
    /\ files = before.files

\* C25: for a kit K that is not recorded and has no directory, a successful
\* install of K followed by the uninstall of K leaves the set of records,
\* the kit directories, the index and the customization files as they were
\* before the install, whatever other kits are installed
C25_InstallThenUninstallRestores ==
    [][\A k \in Kits :
          (before.noted /\ before.kit = k /\ NotedUninstall(k)) => DiskAsNoted']_vars

\* an install of a kit next to another installed kit has been undone: the
\* uninstall removed a customization file and the directory
C25_Witness ==
    /\ before.noted
    /\ before.installed # {}
    /\ before.index # {}
    /\ pc = "idle" /\ cmd.op = "uninstall" /\ cmd.kit = before.kit
    /\ Msg("uninstalled", NoName, 0) \in out
    /\ \E d \in Dests : Msg("removed-asset", d.name, 0) \in out

\* the records of the list whose id is not k, in the order of the list
RecordsOfOthers(list, k) == SelectSeq(list, LAMBDA r : r.id # k)

C27_IndexMatchesFiles ==
    (pc = "idle" /\ cmd.op \in {"install", "update", "uninstall"})
    => {e.bundle : e \in index} = {d \in Dests : Exists(files, d)}

\* after an uninstall that removed files, the other kit's files are still
\* recorded and present
C27_Witness ==
    /\ pc = "idle" /\ cmd.op = "uninstall" /\ exitCode = 0
    /\ \E d \in Dests : Msg("removed-asset", d.name, 0) \in out
    /\ index # {}
    /\ {e.bundle : e \in index} = {d \in Dests : Exists(files, d)}

\* C28 as stated, for the kit K whose install was the command before an
\* uninstall of another kit: K is recorded, its source ships the classified
\* file f (the install reported it as provided by the other kit), so after
\* the uninstall a file named f exists in the folder of f's category
C28_ShippedFilesExist ==
    [][\A k \in Kits : \A p \in RelPaths :
          ( /\ pc = "idle" /\ cmd.op = "install" /\ cmd.kit = k /\ exitCode = 0
            /\ Msg("skip-conflict", FileName(p), 0) \in out
            /\ cmd'.op = "uninstall" /\ pc' = "idle" /\ exitCode' = 0
            /\ RecordsWithId(installed', k) # {} )
          => Exists(files', Dest(Category(FileName(p)), FileName(p)))]_vars

\* C28 amended: when install K has extracted the customizations of its
\* source, a file named f exists in the folder of its category for every
\* classified file f the source ships, owned by K or by another kit; and
\* after every step each file the index records under a kit exists.  (A
\* file of K's source that was skipped is not put back when its owner is
\* uninstalled.)
C28_CopiedFilesExist ==
    [][/\ (pc = "i_extract" /\ pc' # pc /\ cmd.implicit_src.custom)
          => \A p \in cmd.implicit_src.tree :
                Category(FileName(p)) # NoCategory
                => Exists(files', Dest(Category(FileName(p)), FileName(p)))
       /\ \A e \in index' : Exists(files', e.bundle)]_vars

\* an install has ended with a file of its source skipped as another kit's,
\* which is on disk, and files of its own, which are on disk too
C28_Witness ==
    /\ pc = "idle" /\ cmd.op = "install" /\ exitCode = 0
    /\ \E p \in RelPaths :
          /\ Msg("skip-conflict", FileName(p), 0) \in out
          /\ \E e \in index : e.kit # cmd.kit /\ e.filename = FileName(p)
                                /\ Exists(files, e.bundle)
    /\ \E e \in index : e.kit = cmd.kit /\ Exists(files, e.bundle)

\* C29: compare orders the version strings consistently: when compare(a, b)
\* has returned -1, then for every version string c with compare(b, c) < 0
\* also compare(a, c) < 0, whether the pairs are compared as integers or
\* as strings
C29_CompareIsTransitive ==
    call.result = <<-1>>
    => \A c \in VersionStrings :
          compare(call.b, c) < 0 => compare(call.a, c) < 0

\* the names of the classified files of a customizations/ tree
ClassifiedNames(tree) ==
    {FileName(p) : p \in {q \in tree : Category(FileName(q)) # NoCategory}}

\* C30: on every index a step of a command produces, for every kit K and every
\* source directory, detect_customization_conflicts reports a classified
\* filename f exactly when copy_kit_content_assets, run for K on the same
\* index, skips f as already provided by another kit; in an install the
\* names reported before the copy are the names skipped by the extraction;
\* and the step that runs the detection changes neither the index nor any
\* customization file
C30_DetectionAgreesWithCopy ==
    [][/\ index' # index
          => \A k \in Kits : \A src \in {x \in SourceKits : x.custom} :
                \A f \in ClassifiedNames(src.tree) :
                   Msg("conflict", f, 0)
                       \in detect_customization_conflicts(index', k, src.tree)
                   <=> Msg("skip-conflict", f, 0)
                       \in copy_kit_content_assets(RepoRoots[1], k, src, index', files').msgs
       /\ (pc = "i_copy" /\ pc' = "i_record")
          => /\ index' = index
             /\ files' = files
             /\ \A f \in ClassifiedNames(cmd'.implicit_src.tree) :
                   Msg("conflict", f, 0) \in out'
                   <=> \E e \in index : e.kit # cmd.kit /\ e.filename = f
       /\ (pc = "i_extract" /\ pc' # pc)
          => \A f \in ClassifiedNames(cmd.implicit_src.tree) :
                Msg("conflict", f, 0) \in out <=> Msg("skip-conflict", f, 0) \in out']_vars

\* an install has reported a conflict before the copy and skipped the same
\* name in the extraction, and has copied another file
C30_Witness ==
    /\ pc = "idle" /\ cmd.op = "install" /\ exitCode = 0
    /\ \E f \in {FileName(p) : p \in RelPaths} :
          /\ Msg("conflict", f, 0) \in out
          /\ Msg("skip-conflict", f, 0) \in out
    /\ \E n \in 1..Cardinality(RelPaths) : Msg("copied", NoName, n) \in out
====
